---- MODULE Spec2Model ----
(***************************************************************************)
(* Model of opnet-storage: StorageSlot (hierarchical key derivation, point *)
(* reads and writes, list encoding) and StorageValue<T> (cached scalar).   *)
(*                                                                         *)
(* Representation.                                                         *)
(*   ArrayBuffer : a sequence of integers.  0..255 are literal bytes.  The *)
(*                 32-byte digest sha256(v) is the uninterpreted term      *)
(*                 <<-1>> \o v \o <<-2>> (a bracketed copy of its          *)
(*                 preimage), so that the hash is injective and has no     *)
(*                 fixed points.                                           *)
(*   u256        : its 32-byte image: 32 literal bytes, least significant  *)
(*                 first, or one digest term.                              *)
(*   u32, u8...  : sizeof(T) literal bytes, least significant first, so    *)
(*                 that arithmetic keeps its width (TLC integers stop at   *)
(*                 2^31 - 1).                                              *)
(*   string      : the sequence of its code points.                        *)
(***************************************************************************)
EXTENDS Integers, Sequences, FiniteSets, TLC

VARIABLES
    store,   \* host key-value store: written (pointer, subPointer) |-> u256
    last,    \* the last call: its name, receiver, argument and return value
    hnd,     \* the StorageValue handles the contract holds
    log,     \* history: per list anchor, the words appended so far; per
             \* handle, whether neither load() nor set() was called since at()
    inp,     \* inputs drawn at Init: of the key derivation under check, or
             \* of the two append invocations
    out      \* the slot derived from inp, or the position and the local
             \* `length` of each append invocation

vars == <<store, last, hnd, log, inp, out>>

(***************************************************************************)
(* Fixed-width integers as little-endian byte sequences                    *)
(***************************************************************************)
Zeros(n) == [i \in 1..n |-> 0]

\* n (0 <= n < 2^31) as a little-endian integer of `width` bytes
RECURSIVE ToLE(_, _)
ToLE(n, width) ==
    IF width = 0 THEN <<>> ELSE <<n % 256>> \o ToLE(n \div 256, width - 1)

\* b + 1 modulo 2^(8 * Len(b))
RECURSIVE AddOne(_)
AddOne(b) ==
    IF b = <<>> THEN <<>>
    ELSE IF Head(b) = 255 THEN <<0>> \o AddOne(Tail(b))
    ELSE <<Head(b) + 1>> \o Tail(b)

Reverse(s) == [i \in 1..Len(s) |-> s[Len(s) + 1 - i]]

\* long division by 10 of a big-endian byte sequence: <<quotient, remainder>>
RECURSIVE DivMod10(_, _)
DivMod10(be, carry) ==
    IF be = <<>> THEN <<(<<>>), carry>>
    ELSE LET cur  == carry * 256 + Head(be)
             rest == DivMod10(Tail(be), cur % 10)
         IN  <<(<<cur \div 10>>) \o rest[1], rest[2]>>

\* the decimal digits of a little-endian integer, most significant first,
\* empty for zero
RECURSIVE Digits(_)
Digits(le) ==
    IF le = Zeros(Len(le)) THEN <<>>
    ELSE LET qr == DivMod10(Reverse(le), 0)
         IN  Digits(Reverse(qr[1])) \o <<48 + qr[2]>>

\* u32#toString(10)
u32_toString(le) == IF le = Zeros(Len(le)) THEN <<48>> ELSE Digits(le)

\* <i32>x for a u32 x: the same 32 bits read as two's complement
i32_of_u32(le) ==
    le[1] + 256 * le[2] + 65536 * le[3]
      + 16777216 * (IF le[4] >= 128 THEN le[4] - 256 ELSE le[4])

(***************************************************************************)
(* u256 (as-bignum) and the byte utilities                                 *)
(***************************************************************************)
u256_Zero == Zeros(32)

\* u256.from<T>(v) for an unsigned or boolean scalar: zero extension
u256_from(v) == v \o Zeros(32 - Len(v))

\* u256#toU32(): the low 32 bits
u256_toU32(w) == SubSeq(w, 1, 4)

\* String.UTF8.encode of a string given as its code points: one to four
\* bytes per code point
RECURSIVE UTF8_encode(_)
UTF8_encode(str) ==
    IF str = <<>> THEN <<>>
    ELSE LET c == Head(str)
         IN  (CASE c < 128   -> <<c>>
                [] c >= 128 /\ c < 2048 ->
                       <<192 + (c \div 64), 128 + (c % 64)>>
                [] c >= 2048 /\ c < 65536 ->
                       <<224 + (c \div 4096), 128 + ((c \div 64) % 64),
                         128 + (c % 64)>>
                [] OTHER ->
                       <<240 + (c \div 262144), 128 + ((c \div 4096) % 64),
                         128 + ((c \div 64) % 64), 128 + (c % 64)>>)
             \o UTF8_encode(Tail(str))

\* sha256: injective, its digest an uninterpreted 32-byte term
sha256(v) == <<-1>> \o v \o <<-2>>

concat(a, b) == a \o b

\* the 32-byte image of a u256, and back
toArrayBuffer(u) == u
fromArrayBuffer(b) == b

(***************************************************************************)
(* Host store (BlockchainEnvironment)                                      *)
(***************************************************************************)
EmptyStore == [k \in {} |-> u256_Zero]

\* a store that looks a word up by its sub-key alone
getStorageAt_bySubPointer(st, pointer, subPointer, defaultValue) ==
    IF \E k \in DOMAIN st : k[2] = subPointer
    THEN st[CHOOSE k \in DOMAIN st : k[2] = subPointer] ELSE defaultValue

getStorageAt(st, pointer, subPointer, defaultValue) ==
    IF <<pointer, subPointer>> \in DOMAIN st
    THEN st[<<pointer, subPointer>>] ELSE defaultValue

setStorageAt(st, pointer, subPointer, v) ==
    [k \in DOMAIN st \cup {<<pointer, subPointer>>} |->
        IF k = <<pointer, subPointer>> THEN v ELSE st[k]]

(***************************************************************************)
(* StorageSlot                                                             *)
(***************************************************************************)
StorageSlot_new(pointer, subPointer) ==
    [pointer |-> pointer, subPointer |-> subPointer]

StorageSlot_wrap(v) == StorageSlot_new(0, fromArrayBuffer(sha256(v)))

StorageSlot_for(keyword) == StorageSlot_wrap(UTF8_encode(keyword))

StorageSlot_at(pointer) == StorageSlot_new(pointer, u256_Zero)

\* a select that drops the extension
StorageSlot_select_dropExtension(self, v) ==
    StorageSlot_new(self.pointer,
        fromArrayBuffer(sha256(toArrayBuffer(self.subPointer))))

\* a select that puts every child in namespace 0
StorageSlot_select_namespaceZero(self, v) ==
    StorageSlot_new(0,
        fromArrayBuffer(sha256(concat(toArrayBuffer(self.subPointer), sha256(v)))))

StorageSlot_select(self, v) ==
    StorageSlot_new(self.pointer,
        fromArrayBuffer(sha256(concat(toArrayBuffer(self.subPointer), sha256(v)))))

StorageSlot_keyword(self, key) == StorageSlot_select(self, UTF8_encode(key))

StorageSlot_get(st, self) ==
    getStorageAt(st, self.pointer, self.subPointer, u256_Zero)

\* the store after self.set(v)
StorageSlot_set(st, self, v) ==
    setStorageAt(st, self.pointer, self.subPointer, v)

\* a length key without the slash: "length"
StorageSlot_lengthKey_noSlash(self) ==
    StorageSlot_keyword(self, <<108, 101, 110, 103, 116, 104>>)

\* "/length"
StorageSlot_lengthKey(self) ==
    StorageSlot_keyword(self, <<47, 108, 101, 110, 103, 116, 104>>)

StorageSlot_length(st, self) ==
    u256_toU32(StorageSlot_get(st, StorageSlot_lengthKey(self)))

\* a selectIndex that derives the slot of element 0 for every index
StorageSlot_selectIndex_ignoreIndex(self, index) ==
    StorageSlot_keyword(self, <<47, 48>>)

\* "/" + index.toString(10)
StorageSlot_selectIndex(self, index) ==
    StorageSlot_keyword(self, <<47>> \o u32_toString(index))

\* the array getList() returns; <<"RangeError">> when new Array<u256>(n) is
\* given a negative n (a stored length of 2^31 or more)
StorageSlot_getList(st, self) ==
    LET n == i32_of_u32(StorageSlot_length(st, self))
    IN  IF n < 0 THEN <<"RangeError">>
        ELSE [i \in 1..n |->
                StorageSlot_get(st, StorageSlot_selectIndex(self, ToLE(i - 1, 4)))]

\* an extend that returns the slot after the new last one
StorageSlot_extend_offByOne(st, self) ==
    LET lengthKey == StorageSlot_lengthKey(self)
        length    == u256_toU32(StorageSlot_get(st, lengthKey))
    IN  [store |-> StorageSlot_set(st, lengthKey, u256_from(AddOne(length))),
         ret   |-> StorageSlot_selectIndex(self, AddOne(length))]

\* extend(): the store afterwards and the slot returned
StorageSlot_extend(st, self) ==
    LET lengthKey == StorageSlot_lengthKey(self)
        length    == u256_toU32(StorageSlot_get(st, lengthKey))
    IN  [store |-> StorageSlot_set(st, lengthKey, u256_from(AddOne(length))),
         ret   |-> StorageSlot_selectIndex(self, length)]

\* a nullify that writes nothing
StorageSlot_nullify_noWrite(st, self) == st

\* the store after self.nullify()
StorageSlot_nullify(st, self) == StorageSlot_set(st, self, u256_Zero)

\* the store after self.append(v)
StorageSlot_append(st, self, v) ==
    LET e == StorageSlot_extend(st, self)
    IN  StorageSlot_set(e.store, e.ret, v)

(***************************************************************************)
(* StorageValue<T>                                                         *)
(***************************************************************************)
\* the scalar kinds T, and sizeof<T>() in bytes
Types == {"bool", "u8", "u16", "u32", "u64"}

sizeof(T) ==
    CASE T = "bool" -> 1
      [] T = "u8"   -> 1
      [] T = "u16"  -> 2
      [] T = "u32"  -> 4
      [] T = "u64"  -> 8

StorageValue_new(T, slot) == [T |-> T, slot |-> slot, inner |-> u256_Zero]

StorageValue_at(T, slot) == StorageValue_new(T, slot)

\* a save that reads the slot into the cache before it writes
StorageValue_save_refresh(st, self) ==
    LET fresh == [self EXCEPT !.inner = StorageSlot_get(st, self.slot)]
    IN  [store |-> StorageSlot_set(st, self.slot, u256_from(fresh.inner)),
         self  |-> fresh]

\* a save that skips the write of a zero cache
StorageValue_save_skipZero(st, self) ==
    [store |-> IF self.inner = u256_Zero THEN st
               ELSE StorageSlot_set(st, self.slot, u256_from(self.inner)),
     self  |-> self]

\* save(): the store afterwards and the handle returned
StorageValue_save(st, self) ==
    [store |-> StorageSlot_set(st, self.slot, u256_from(self.inner)),
     self  |-> self]

\* set(v): the store afterwards and the handle returned
StorageValue_set(st, self, v) ==
    StorageValue_save(st, [self EXCEPT !.inner = u256_from(v)])

\* load(): the handle returned
StorageValue_load(st, self) ==
    [self EXCEPT !.inner = StorageSlot_get(st, self.slot)]

\* an unwrap that reads the scalar from the most significant end
StorageValue_unwrap_bigEndian(self) ==
    SubSeq(Reverse(self.inner), 1, sizeof(self.T))

\* an unwrap that saturates when the word does not fit
StorageValue_unwrap_saturating(self) ==
    IF SubSeq(self.inner, sizeof(self.T) + 1, 32) = Zeros(32 - sizeof(self.T))
    THEN SubSeq(self.inner, 1, sizeof(self.T))
    ELSE [i \in 1..sizeof(self.T) |-> 255]

\* unwrap(): the first sizeof<T>() bytes of inner.toBytesLE()
StorageValue_unwrap(self) == SubSeq(self.inner, 1, sizeof(self.T))


(***************************************************************************)
(* Spec: point reads and writes through slots of a table                   *)
(***************************************************************************)
\* "balances"
TableName == <<98, 97, 108, 97, 110, 99, 101, 115>>

\* two distinct keys (address bytes)
KeyA == <<1>>
KeyB == <<2>>

Table == StorageSlot_for(TableName)

\* the slots the contract addresses: two rows of a table, the same key
\* under two other namespaces, and the list slots of a row
Slots ==
    { StorageSlot_select(Table, KeyA),
      StorageSlot_select(Table, KeyB),
      StorageSlot_select(StorageSlot_at(1), KeyB),
      StorageSlot_select(StorageSlot_at(2), KeyB),
      StorageSlot_lengthKey(StorageSlot_select(Table, KeyA)),
      StorageSlot_selectIndex(StorageSlot_select(Table, KeyA), ToLE(0, 4)) }

\* the words written: 100, and 2^256 - 1
Words == { u256_from(<<100>>), [i \in 1..32 |-> 255] }

NoCall == [op |-> "none", slot |-> <<>>, arg |-> <<>>, ret |-> <<>>]

Call(op, slot, arg, ret) == [op |-> op, slot |-> slot, arg |-> arg, ret |-> ret]

Init ==
    /\ store = EmptyStore
    /\ last = NoCall
    /\ hnd = <<>>
    /\ log = <<>>
    /\ inp = <<>>
    /\ out = <<>>

Get(s) ==
    /\ last' = Call("get", s, <<>>, StorageSlot_get(store, s))
    /\ UNCHANGED <<store, hnd, log, inp, out>>

Set(s, w) ==
    /\ store' = StorageSlot_set(store, s, w)
    /\ last' = Call("set", s, w, <<>>)
    /\ UNCHANGED <<hnd, log, inp, out>>

Nullify(s) ==
    /\ store' = StorageSlot_nullify(store, s)
    /\ last' = Call("nullify", s, <<>>, <<>>)
    /\ UNCHANGED <<hnd, log, inp, out>>

Next ==
    \/ \E s \in Slots : Get(s)
    \/ \E s \in Slots, w \in Words : Set(s, w)
    \/ \E s \in Slots : Nullify(s)

Spec == Init /\ [][Next]_vars

(***************************************************************************)
(* Claims checked under Spec                                               *)
(***************************************************************************)
Row(k) == StorageSlot_select(StorageSlot_for(TableName), k)

\* C2: a row of the table StorageSlot.for(name) reads zero while it was never
\* written; after select(a).set(w) a freshly derived select(a) reads w, and
\* the row of any other key b reads what it read before the set.
C2_TableRowWrite ==
    /\ [](\A a \in {KeyA, KeyB} :
            <<Row(a).pointer, Row(a).subPointer>> \notin DOMAIN store
                => StorageSlot_get(store, Row(a)) = u256_Zero)
    /\ [][\A a \in {KeyA, KeyB}, b \in {KeyA, KeyB} :
            (a # b /\ last'.op = "set" /\ last'.slot = Row(a))
                => /\ StorageSlot_get(store', Row(a)) = last'.arg
                   /\ StorageSlot_get(store', Row(b)) = StorageSlot_get(store, Row(b))
         ]_vars

\* a set of row KeyA has acted while row KeyB holds another, non-zero word
C2_Witness ==
    /\ last.op = "set"
    /\ last.slot = Row(KeyA)
    /\ StorageSlot_get(store, Row(KeyA)) = u256_from(<<100>>)
    /\ StorageSlot_get(store, Row(KeyB)) = [i \in 1..32 |-> 255]

SameLocation(A, B) == A.pointer = B.pointer /\ A.subPointer = B.subPointer

\* C5: after A.set(w), a slot B reads w if B.pointer = A.pointer and
\* B.subPointer = A.subPointer, and reads what it read before if either
\* differs; at(1).select(b) and at(2).select(b) have equal sub-keys and are
\* independent.
C5_LocationIsPointerAndSubPointer ==
    [][last'.op = "set" =>
        \A B \in Slots :
            StorageSlot_get(store', B) =
                IF SameLocation(last'.slot, B) THEN last'.arg
                ELSE StorageSlot_get(store, B)
     ]_vars

\* at(1).select(KeyB) was set while at(2).select(KeyB), of equal sub-key,
\* holds another word
C5_Witness ==
    LET A == StorageSlot_select(StorageSlot_at(1), KeyB)
        B == StorageSlot_select(StorageSlot_at(2), KeyB)
    IN  /\ last.op = "set"
        /\ last.slot = A
        /\ A.subPointer = B.subPointer
        /\ A.pointer # B.pointer
        /\ <<B.pointer, B.subPointer>> \in DOMAIN store
        /\ StorageSlot_get(store, B) # StorageSlot_get(store, A)

\* C7: after S.nullify(), S.get() is the zero word, and a second S.nullify()
\* leaves the whole store as the first one left it.
C7_NullifyIdempotent ==
    [][last'.op = "nullify" =>
        /\ StorageSlot_get(store', last'.slot) = u256_Zero
        /\ StorageSlot_nullify(store', last'.slot) = store'
     ]_vars

\* a row was nullified while its list length and element slots hold words
C7_Witness ==
    /\ last.op = "nullify"
    /\ last.slot = Row(KeyA)
    /\ StorageSlot_get(store, StorageSlot_lengthKey(Row(KeyA))) # u256_Zero
    /\ StorageSlot_get(store, StorageSlot_selectIndex(Row(KeyA), ToLE(0, 4))) # u256_Zero

(***************************************************************************)
(* SpecList: the list encoding                                             *)
(***************************************************************************)
\* appends and extends are taken while the list stays this short
MaxLen == 3

\* "list"
ListName == <<108, 105, 115, 116>>

\* the list under check, and a second list beside it
List == StorageSlot_for(ListName)
OtherList == StorageSlot_at(1)
Anchors == {List, OtherList}

\* the words appended: 7 and 2^255
AppendWords == { u256_from(<<7>>), [i \in 1..32 |-> IF i = 32 THEN 128 ELSE 0] }

\* words written straight to a list slot: 2^32 - 1 and 2^32 + 1
ListWords == { u256_from(<<255, 255, 255, 255>>), u256_from(<<1, 0, 0, 0, 1>>) }

\* the list slots written directly, without extend or append
DirectSlots ==
    { StorageSlot_lengthKey(List), StorageSlot_selectIndex(List, ToLE(0, 4)) }

\* every slot of the lists: anchor, length, elements 0..MaxLen and 2^32 - 1
ListSlots ==
    UNION { {S, StorageSlot_lengthKey(S),
             StorageSlot_selectIndex(S, <<255, 255, 255, 255>>)}
            \cup {StorageSlot_selectIndex(S, ToLE(i, 4)) : i \in 0..MaxLen}
          : S \in Anchors }

\* the history of a list nothing but append has written
Appended(vals) == [clean |-> TRUE, vals |-> vals]
\* the history of a list written otherwise
Dirty == [clean |-> FALSE, vals |-> <<>>]

InitList ==
    /\ store = EmptyStore
    /\ last = NoCall
    /\ hnd = <<>>
    /\ log = [S \in Anchors |-> Appended(<<>>)]
    /\ inp = <<>>
    /\ out = <<>>

\* the length after one more element stays within the bound (or wraps)
WithinMaxLen(S) ==
    i32_of_u32(AddOne(StorageSlot_length(store, S))) \in 0..MaxLen

ListGet(s) ==
    /\ last' = Call("get", s, <<>>, StorageSlot_get(store, s))
    /\ UNCHANGED <<store, hnd, log, inp, out>>

ListSet(s, w) ==
    /\ store' = StorageSlot_set(store, s, w)
    /\ last' = Call("set", s, w, <<>>)
    /\ log' = [log EXCEPT ![List] = Dirty]
    /\ UNCHANGED <<hnd, inp, out>>

ListLength(S) ==
    /\ last' = Call("length", S, <<>>, StorageSlot_length(store, S))
    /\ UNCHANGED <<store, hnd, log, inp, out>>

ListGetList(S) ==
    /\ last' = Call("getList", S, <<>>, StorageSlot_getList(store, S))
    /\ UNCHANGED <<store, hnd, log, inp, out>>

ListExtend(S) ==
    /\ WithinMaxLen(S)
    /\ LET e == StorageSlot_extend(store, S)
       IN  /\ store' = e.store
           /\ last' = Call("extend", S, <<>>, e.ret)
    /\ log' = [log EXCEPT ![S] = Dirty]
    /\ UNCHANGED <<hnd, inp, out>>

ListAppend(S, v) ==
    /\ WithinMaxLen(S)
    /\ store' = StorageSlot_append(store, S, v)
    /\ last' = Call("append", S, v, <<>>)
    /\ log' = [log EXCEPT ![S] =
                  IF @.clean THEN Appended(Append(@.vals, v)) ELSE Dirty]
    /\ UNCHANGED <<hnd, inp, out>>

NextList ==
    \/ \E s \in ListSlots : ListGet(s)
    \/ \E s \in DirectSlots, w \in ListWords : ListSet(s, w)
    \/ \E S \in Anchors : ListLength(S)
    \/ \E S \in Anchors : ListGetList(S)
    \/ ListExtend(List)
    \/ \E v \in AppendWords : ListAppend(List, v)
    \/ \E v \in {u256_from(<<7>>)} : ListAppend(OtherList, v)

SpecList == InitList /\ [][NextList]_vars

(***************************************************************************)
(* Claims checked under SpecList                                           *)
(***************************************************************************)
\* C1: on a list whose slots were never written, after append(v0), ...,
\* append(v(k-1)) and no other write to the list, length() returns k and
\* getList() returns <<v0, ..., v(k-1)>> in that order.
C1_AppendThenGetList ==
    \A S \in Anchors :
        log[S].clean =>
            /\ StorageSlot_length(store, S) = ToLE(Len(log[S].vals), 4)
            /\ StorageSlot_getList(store, S) = log[S].vals
            /\ (last.op = "length" /\ last.slot = S)
                   => last.ret = ToLE(Len(log[S].vals), 4)
            /\ (last.op = "getList" /\ last.slot = S)
                   => last.ret = log[S].vals

\* getList() has returned three appended words, the first two distinct
C1_Witness ==
    /\ last.op = "getList"
    /\ last.slot = List
    /\ log[List].clean
    /\ Len(log[List].vals) = 3
    /\ log[List].vals[1] # log[List].vals[2]
    /\ last.ret = log[List].vals

\* C4: for every length n a u32 holds, extend() writes n + 1 to the length
\* slot, so that length() then returns n + 1, returns selectIndex(n), and
\* writes no other slot.
C4_ExtendAddsOne ==
    [][last'.op = "extend" =>
        LET S  == last'.slot
            n  == StorageSlot_length(store, S)
            lk == StorageSlot_lengthKey(S)
        IN  /\ StorageSlot_get(store', lk) = AddOne(u256_from(n))
            /\ StorageSlot_length(store', S) \o <<0>> = AddOne(n \o <<0>>)
            /\ last'.ret = StorageSlot_selectIndex(S, n)
            /\ \A k \in (DOMAIN store \cup DOMAIN store') \ {<<lk.pointer, lk.subPointer>>} :
                   /\ k \in DOMAIN store
                   /\ k \in DOMAIN store'
                   /\ store'[k] = store[k]
     ]_vars

(***************************************************************************)
(* SpecValue: StorageValue handles over one storage location               *)
(***************************************************************************)
Handles == {"x", "y"}

ValueSlot == StorageSlot_at(1)

\* handle x is opened on either of two slots, handle y on the first
SlotsOf(h) ==
    IF h = "x" THEN {StorageSlot_at(1), StorageSlot_at(2)} ELSE {ValueSlot}

\* the values of kind T taken: 0, 1 and the largest
Values(T) ==
    { Zeros(sizeof(T)),
      [i \in 1..sizeof(T) |-> IF i = 1 THEN 1 ELSE 0],
      [i \in 1..sizeof(T) |-> IF T = "bool" THEN 1 ELSE 255] }

\* the word written straight to the slot: every byte 0xA5
ForeignWords == { [i \in 1..32 |-> 165] }

NoHandle == [T |-> "none", slot |-> <<>>, inner |-> <<>>]

InitValue ==
    /\ store = EmptyStore
    /\ last = NoCall
    /\ hnd = [h \in Handles |-> NoHandle]
    /\ log = [h \in Handles |-> FALSE]
    /\ inp = <<>>
    /\ out = <<>>

ValueAt(h, T, slot) ==
    /\ hnd' = [hnd EXCEPT ![h] = StorageValue_at(T, slot)]
    /\ last' = Call("at", h, <<>>, <<>>)
    /\ log' = [log EXCEPT ![h] = TRUE]
    /\ UNCHANGED <<store, inp, out>>

ValueSave(h) ==
    /\ hnd[h] # NoHandle
    /\ LET r == StorageValue_save(store, hnd[h])
       IN  /\ store' = r.store
           /\ hnd' = [hnd EXCEPT ![h] = r.self]
    /\ last' = Call("save", h, <<>>, <<>>)
    /\ UNCHANGED <<log, inp, out>>

ValueSet(h, v) ==
    /\ hnd[h] # NoHandle
    /\ LET r == StorageValue_set(store, hnd[h], v)
       IN  /\ store' = r.store
           /\ hnd' = [hnd EXCEPT ![h] = r.self]
    /\ last' = Call("set", h, v, <<>>)
    /\ log' = [log EXCEPT ![h] = FALSE]
    /\ UNCHANGED <<inp, out>>

ValueLoad(h) ==
    /\ hnd[h] # NoHandle
    /\ hnd' = [hnd EXCEPT ![h] = StorageValue_load(store, hnd[h])]
    /\ last' = Call("load", h, <<>>, <<>>)
    /\ log' = [log EXCEPT ![h] = FALSE]
    /\ UNCHANGED <<store, inp, out>>

ValueUnwrap(h) ==
    /\ hnd[h] # NoHandle
    /\ last' = Call("unwrap", h, <<>>, StorageValue_unwrap(hnd[h]))
    /\ UNCHANGED <<store, hnd, log, inp, out>>

\* a write to the location that goes through no handle
ForeignSet(s, w) ==
    /\ store' = StorageSlot_set(store, s, w)
    /\ last' = Call("slot.set", "", <<s.pointer>> \o s.subPointer \o w, <<>>)
    /\ UNCHANGED <<hnd, log, inp, out>>

NextValue ==
    \/ \E h \in Handles, T \in Types : \E s \in SlotsOf(h) : ValueAt(h, T, s)
    \/ \E h \in Handles : ValueSave(h)
    \/ \E h \in {g \in Handles : hnd[g] # NoHandle} :
          \E v \in Values(hnd[h].T) : ValueSet(h, v)
    \/ \E h \in Handles : ValueLoad(h)
    \/ \E h \in Handles : ValueUnwrap(h)
    \/ \E w \in ForeignWords : ForeignSet(ValueSlot, w)

SpecValue == InitValue /\ [][NextValue]_vars

(***************************************************************************)
(* Claims checked under SpecValue                                          *)
(***************************************************************************)
\* C3: for every kind T and value v of T, after StorageValue.at<T>(slot)
\* .set(v), load() on the same handle, or on a fresh handle at<T>(slot),
\* makes unwrap() return v.
C3_SetLoadUnwrap ==
    [][last'.op = "set" =>
        LET self == hnd'[last'.slot]
            v    == last'.arg
        IN  /\ StorageValue_unwrap(StorageValue_load(store', self)) = v
            /\ StorageValue_unwrap(
                   StorageValue_load(store', StorageValue_at(self.T, self.slot))) = v
     ]_vars

\* set(2^64 - 1) has acted on a StorageValue<u64>
C3_Witness ==
    /\ last.op = "set"
    /\ hnd[last.slot].T = "u64"
    /\ last.arg = [i \in 1..8 |-> 255]
    /\ StorageSlot_get(store, hnd[last.slot].slot) = u256_from([i \in 1..8 |-> 255])

\* C6: the cached word of a handle is the word its last load() read, or the
\* widened argument of its last set(v), whichever came last, and zero if
\* neither was called; no other call (a write to the location by a slot or
\* by another handle, save, unwrap) changes it, and unwrap() returns the
\* narrowed cache.
C6_CacheFollowsLoadAndSet ==
    [][\A h \in Handles :
          hnd'[h] # NoHandle =>
            /\ hnd'[h].inner =
                 CASE last'.op = "at" /\ last'.slot = h -> u256_Zero
                   [] last'.op = "load" /\ last'.slot = h ->
                          StorageSlot_get(store, hnd[h].slot)
                   [] last'.op = "set" /\ last'.slot = h -> u256_from(last'.arg)
                   [] OTHER -> hnd[h].inner
            /\ (last'.op = "unwrap" /\ last'.slot = h)
                   => last'.ret = SubSeq(hnd[h].inner, 1, sizeof(hnd[h].T))
     ]_vars

\* unwrap() has returned the cached value of handle x while the location
\* holds another word, written through handle y
C6_Witness ==
    /\ last.op = "unwrap"
    /\ last.slot = "x"
    /\ hnd["y"] # NoHandle
    /\ hnd["x"].slot = hnd["y"].slot
    /\ hnd["x"].T = "u16"
    /\ hnd["x"].inner = u256_from(<<255, 255>>)
    /\ StorageSlot_get(store, hnd["x"].slot) = hnd["y"].inner
    /\ hnd["y"].inner = u256_from(<<1>>)
    /\ last.ret = <<255, 255>>

\* C13: for every unsigned kind T of k bits (k in 8, 16, 32, 64) and every
\* 256-bit word w in the cache, unwrap() returns w mod 2^k, the low k bits
\* of w with the high bits dropped, is enabled whatever w is, and leaves the
\* cache and the store unchanged.
C13_UnwrapTruncates ==
    /\ [](\A h \in Handles : hnd[h] # NoHandle => ENABLED ValueUnwrap(h))
    /\ [][(last'.op = "unwrap" /\ hnd[last'.slot].T \in {"u8", "u16", "u32", "u64"}) =>
            LET T == hnd[last'.slot].T
                w == hnd[last'.slot].inner
                k == CASE T = "u8"  -> 8
                       [] T = "u16" -> 16
                       [] T = "u32" -> 32
                       [] T = "u64" -> 64
            IN  /\ Len(last'.ret) * 8 = k
                /\ \A i \in 1..32 :
                       u256_from(last'.ret)[i] = IF (i - 1) * 8 < k THEN w[i] ELSE 0
                /\ hnd' = hnd
                /\ store' = store
       ]_vars

\* unwrap() of a StorageValue<u16> whose cache holds the loaded word
\* 0xA5A5...A5 has returned 0xA5A5
C13_Witness ==
    /\ last.op = "unwrap"
    /\ hnd[last.slot].T = "u16"
    /\ hnd[last.slot].inner = [i \in 1..32 |-> 165]
    /\ StorageSlot_get(store, hnd[last.slot].slot) = [i \in 1..32 |-> 165]
    /\ last.ret = <<165, 165>>

\* C15: StorageValue.at<T>(slot) leaves the store alone and starts with a
\* zero cache whatever word is stored at the slot; before any load() or
\* set() on the handle, unwrap() returns zero and save() makes the word at
\* the slot zero.
C15_FreshHandleIsZero ==
    [][/\ last'.op = "at" =>
            /\ store' = store
            /\ hnd'[last'.slot].inner = u256_Zero
       /\ (last'.op = "unwrap" /\ log[last'.slot]) =>
            last'.ret = Zeros(sizeof(hnd[last'.slot].T))
       /\ (last'.op = "save" /\ log[last'.slot]) =>
            /\ StorageSlot_get(store', hnd[last'.slot].slot) = u256_Zero
            /\ \A k \in DOMAIN store :
                   k # <<hnd[last'.slot].slot.pointer, hnd[last'.slot].slot.subPointer>>
                       => store'[k] = store[k]
     ]_vars

\* save() on handle x, fresh from at(), has zeroed the slot from which
\* handle y had loaded the word 0xA5A5...A5
C15_Witness ==
    /\ last.op = "save"
    /\ last.slot = "x"
    /\ log["x"]
    /\ hnd["x"].slot = hnd["y"].slot
    /\ hnd["y"].inner = [i \in 1..32 |-> 165]
    /\ StorageSlot_get(store, hnd["x"].slot) = u256_Zero

(***************************************************************************)
(* SpecKeys: key derivation on inputs drawn at Init                        *)
(***************************************************************************)
\* parents: namespaces 0 and 1, a keyword slot, and a row of each
Parents ==
    { StorageSlot_at(0), StorageSlot_at(1), Table,
      StorageSlot_select(Table, KeyA),
      StorageSlot_select(StorageSlot_at(1), KeyA) }

\* bytes the caller passes: the empty buffer, two keys, and the 64 bytes made
\* of 32 zero bytes followed by the digest of KeyA
Buffers ==
    { <<>>, KeyA, KeyB, concat(toArrayBuffer(u256_Zero), sha256(KeyA)) }

\* keywords: "length", "/length", "10", "/10" and the euro sign U+20AC
Keywords ==
    { <<108, 101, 110, 103, 116, 104>>, <<47, 108, 101, 110, 103, 116, 104>>,
      <<49, 48>>, <<47, 49, 48>>, <<8364>> }

\* indices: 0, 10, 256 and 2^32 - 1
Indices == { ToLE(0, 4), ToLE(10, 4), ToLE(256, 4), <<255, 255, 255, 255>> }

NoSlot == [op |-> "none", slot |-> <<>>]

Derived(op, slot) == [op |-> op, slot |-> slot]

InitKeys ==
    /\ store = EmptyStore
    /\ last = NoCall
    /\ hnd = <<>>
    /\ log = <<>>
    /\ inp \in [P : Parents, a : Buffers, b : Buffers, e : Buffers,
                key : Keywords, i : Indices]
    /\ out = NoSlot

KeysWrap ==
    /\ out' = Derived("wrap", StorageSlot_wrap(inp.b))
    /\ UNCHANGED <<store, last, hnd, log, inp>>

KeysSelect ==
    /\ out' = Derived("select", StorageSlot_select(inp.P, inp.e))
    /\ UNCHANGED <<store, last, hnd, log, inp>>

KeysSelectSelect ==
    /\ out' = Derived("select.select",
                  StorageSlot_select(StorageSlot_select(inp.P, inp.a), inp.b))
    /\ UNCHANGED <<store, last, hnd, log, inp>>

KeysKeyword ==
    /\ out' = Derived("keyword", StorageSlot_keyword(inp.P, inp.key))
    /\ UNCHANGED <<store, last, hnd, log, inp>>

KeysLengthKey ==
    /\ out' = Derived("lengthKey", StorageSlot_lengthKey(inp.P))
    /\ UNCHANGED <<store, last, hnd, log, inp>>

KeysSelectIndex ==
    /\ out' = Derived("selectIndex", StorageSlot_selectIndex(inp.P, inp.i))
    /\ UNCHANGED <<store, last, hnd, log, inp>>

NextKeys ==
    \/ KeysWrap
    \/ KeysSelect
    \/ KeysSelectSelect
    \/ KeysKeyword
    \/ KeysLengthKey
    \/ KeysSelectIndex

SpecKeys == InitKeys /\ [][NextKeys]_vars

(***************************************************************************)
(* Claims checked under SpecKeys                                           *)
(***************************************************************************)
\* C8: slots of different hierarchy levels never address the same location:
\* wrap(b) differs from P.select(e) for every namespace-0 parent P and all
\* bytes b, e; and P.select(a).select(b) differs from P.select(e).
C8_LevelsNeverCollide ==
    /\ out.op = "wrap" =>
          \A P \in Parents, e \in Buffers :
              P.pointer = 0 => out.slot # StorageSlot_select(P, e)
    /\ out.op = "select.select" =>
          \A e \in Buffers : out.slot # StorageSlot_select(inp.P, e)

\* C9: for distinct extensions e1 # e2, P.select(e1) and P.select(e2) have
\* the pointer of P and different subPointers; a second P.select(e1) gives
\* the same slot, and select leaves P as it was.
C9_SelectDistinctChildren ==
    /\ [](out.op = "select" =>
            /\ out.slot.pointer = inp.P.pointer
            /\ out.slot = StorageSlot_select(inp.P, inp.e)
            /\ \A e2 \in Buffers \ {inp.e} :
                  /\ StorageSlot_select(inp.P, e2).pointer = inp.P.pointer
                  /\ StorageSlot_select(inp.P, e2).subPointer # out.slot.subPointer)
    /\ [][out'.op = "select" => inp'.P = inp.P]_vars

\* select has derived a child of a parent in namespace 1
C9_Witness ==
    /\ out.op = "select"
    /\ inp.P = StorageSlot_select(StorageSlot_at(1), KeyA)
    /\ inp.e = KeyB
    /\ out.slot.pointer = 1

\* the decimal digits of n, most significant first
RECURSIVE decimalString(_)
decimalString(n) ==
    IF n < 10 THEN <<48 + n>> ELSE decimalString(n \div 10) \o <<48 + (n % 10)>>

\* C10 as stated: lengthKey() is keyword("length") and selectIndex(i) is
\* keyword(decimalString(i)).
C10_ListKeysWithoutSlash ==
    /\ out.op = "lengthKey"
          => out.slot = StorageSlot_keyword(inp.P, <<108, 101, 110, 103, 116, 104>>)
    /\ (out.op = "selectIndex" /\ inp.i # <<255, 255, 255, 255>>)
          => out.slot = StorageSlot_keyword(inp.P, decimalString(i32_of_u32(inp.i)))
    \* "4294967295"
    /\ (out.op = "selectIndex" /\ inp.i = <<255, 255, 255, 255>>)
          => out.slot = StorageSlot_keyword(inp.P,
                            <<52, 50, 57, 52, 57, 54, 55, 50, 57, 53>>)

\* C10 amended: lengthKey() is keyword("/length") and selectIndex(i) is
\* keyword("/" + decimalString(i)).
C10_ListKeysWithSlash ==
    /\ out.op = "lengthKey"
          => out.slot = StorageSlot_keyword(inp.P, <<47, 108, 101, 110, 103, 116, 104>>)
    /\ (out.op = "selectIndex" /\ inp.i # <<255, 255, 255, 255>>)
          => out.slot = StorageSlot_keyword(inp.P,
                            <<47>> \o decimalString(i32_of_u32(inp.i)))
    \* "/4294967295"
    /\ (out.op = "selectIndex" /\ inp.i = <<255, 255, 255, 255>>)
          => out.slot = StorageSlot_keyword(inp.P,
                            <<47, 52, 50, 57, 52, 57, 54, 55, 50, 57, 53>>)

\* selectIndex(10) has derived the element slot of a table row
C10_Witness ==
    /\ out.op = "selectIndex"
    /\ inp.i = ToLE(10, 4)
    /\ inp.P = StorageSlot_select(Table, KeyA)
    /\ out.slot = StorageSlot_keyword(inp.P, <<47, 49, 48>>)

(***************************************************************************)
(* SpecGrow: a list written by extend and append only                      *)
(***************************************************************************)
\* a < b for two little-endian integers of the same width
RECURSIVE LessThan(_, _)
LessThan(a, b) ==
    IF a = <<>> THEN FALSE
    ELSE LET n == Len(a)
         IN  \/ a[n] < b[n]
             \/ a[n] = b[n] /\ LessThan(SubSeq(a, 1, n - 1), SubSeq(b, 1, n - 1))

\* the indices read: 0..MaxLen and 2^32 - 1
GrowIndices == {ToLE(i, 4) : i \in 0..MaxLen} \cup {<<255, 255, 255, 255>>}

\* the store of List after 2^32 - 1 calls of extend() on the empty store:
\* only its length slot is written
ExtendedToMax ==
    StorageSlot_set(EmptyStore, StorageSlot_lengthKey(List),
                    u256_from(<<255, 255, 255, 255>>))

\* nothing written, or List extended 2^32 - 1 times
InitGrow ==
    /\ store \in {EmptyStore, ExtendedToMax}
    /\ last = NoCall
    /\ hnd = <<>>
    /\ log = [S \in Anchors |->
                IF S = List /\ store = ExtendedToMax THEN Dirty ELSE Appended(<<>>)]
    /\ inp = <<>>
    /\ out = <<>>

NextGrow ==
    \/ \E s \in ListSlots : ListGet(s)
    \/ \E S \in Anchors : ListLength(S)
    \/ \E S \in Anchors : ListGetList(S)
    \/ \E S \in Anchors : ListExtend(S)
    \/ \E v \in AppendWords : ListAppend(List, v)
    \/ \E v \in {u256_from(<<7>>)} : ListAppend(OtherList, v)

SpecGrow == InitGrow /\ [][NextGrow]_vars

\* no slot of the list anchored at S was ever written
NeverWritten(S) ==
    \A k \in DOMAIN store :
        /\ k # <<StorageSlot_lengthKey(S).pointer, StorageSlot_lengthKey(S).subPointer>>
        /\ \A i \in GrowIndices :
              k # <<StorageSlot_selectIndex(S, i).pointer,
                    StorageSlot_selectIndex(S, i).subPointer>>

\* C11: a never-written list has length() 0 and an empty getList(); in every
\* state reached by extend() and append(v) only, selectIndex(i).get() is the
\* zero word for every i >= length(), raises no error and changes no stored
\* value.
C11_ZeroBeyondLength ==
    /\ [](\A S \in Anchors :
            NeverWritten(S) =>
                /\ StorageSlot_length(store, S) = ToLE(0, 4)
                /\ StorageSlot_getList(store, S) = <<>>)
    /\ [](\A S \in Anchors, i \in GrowIndices :
            ~LessThan(i, StorageSlot_length(store, S))
                => StorageSlot_get(store, StorageSlot_selectIndex(S, i)) = u256_Zero)
    /\ [][last'.op = "get" =>
            /\ store' = store
            /\ last'.ret = StorageSlot_get(store, last'.slot)
            /\ Len(last'.ret) = 32
         ]_vars

(***************************************************************************)
(* SpecConc: two append(v) invocations on one list, step by step           *)
(***************************************************************************)
Invocations == {1, 2}

\* extend(), line 50: the length read
extend_readLength(st, self) ==
    u256_toU32(StorageSlot_get(st, StorageSlot_lengthKey(self)))

\* a length write that reads the slot again and adds one to what it holds
extend_writeLength_reread(st, self, length) ==
    StorageSlot_set(st, StorageSlot_lengthKey(self),
        u256_from(AddOne(u256_toU32(StorageSlot_get(st, StorageSlot_lengthKey(self))))))

\* extend(), line 51: the store after the length write
extend_writeLength(st, self, length) ==
    StorageSlot_set(st, StorageSlot_lengthKey(self), u256_from(AddOne(length)))

\* append(), line 61: the store after extend()'s result is set
append_setElement(st, self, length, v) ==
    StorageSlot_set(st, StorageSlot_selectIndex(self, length), v)

\* the list holds nothing, or one word appended earlier; the invocations run
\* one after the other ("serial") or interleaved at every host call
InitConc ==
    /\ store \in {EmptyStore, StorageSlot_append(EmptyStore, List, u256_from(<<100>>))}
    /\ last = NoCall
    /\ hnd = <<>>
    /\ log = <<>>
    /\ inp \in [v : [Invocations -> AppendWords], mode : {"serial", "interleaved"}]
    /\ out = [p \in Invocations |-> [pc |-> "read", length |-> <<>>]]

ConcReadLength(p) ==
    /\ out[p].pc = "read"
    /\ inp.mode = "serial" =>
          \A q \in Invocations \ {p} : out[q].pc \in {"read", "done"}
    /\ out' = [out EXCEPT ![p] = [pc |-> "writeLength",
                                  length |-> extend_readLength(store, List)]]
    /\ UNCHANGED <<store, last, hnd, log, inp>>

ConcWriteLength(p) ==
    /\ out[p].pc = "writeLength"
    /\ store' = extend_writeLength(store, List, out[p].length)
    /\ out' = [out EXCEPT ![p].pc = "setElement"]
    /\ UNCHANGED <<last, hnd, log, inp>>

ConcSetElement(p) ==
    /\ out[p].pc = "setElement"
    /\ store' = append_setElement(store, List, out[p].length, inp.v[p])
    /\ out' = [out EXCEPT ![p].pc = "done"]
    /\ UNCHANGED <<last, hnd, log, inp>>

NextConc ==
    \/ \E p \in Invocations : ConcReadLength(p)
    \/ \E p \in Invocations : ConcWriteLength(p)
    \/ \E p \in Invocations : ConcSetElement(p)

SpecConc == InitConc /\ [][NextConc]_vars

ConcDone == \A p \in Invocations : out[p].pc = "done"

Written(s) == <<s.pointer, s.subPointer>> \in DOMAIN store

\* C12: when both invocations have returned, either they read the same length
\* n, and then the length is n + 1 and the one slot selectIndex(n) holds the
\* word set last while selectIndex(n + 1) was not written (a lost update);
\* or one read n and the other n + 1, and then the length is n + 2 and both
\* words are stored.  Run one after the other they never read the same
\* length.
C12_LostUpdateOnlyWhenInterleaved ==
    ConcDone =>
        LET n1 == out[1].length
            n2 == out[2].length
        IN  /\ inp.mode = "serial" => n1 # n2
            /\ n1 = n2 =>
                  /\ StorageSlot_length(store, List) = AddOne(n1)
                  /\ StorageSlot_get(store, StorageSlot_selectIndex(List, n1))
                        \in {inp.v[1], inp.v[2]}
                  /\ ~Written(StorageSlot_selectIndex(List, AddOne(n1)))
            /\ n1 # n2 =>
                  /\ n1 = AddOne(n2) \/ n2 = AddOne(n1)
                  /\ StorageSlot_length(store, List)
                        = AddOne(IF n1 = AddOne(n2) THEN n1 ELSE n2)
                  /\ StorageSlot_get(store, StorageSlot_selectIndex(List, n1)) = inp.v[1]
                  /\ StorageSlot_get(store, StorageSlot_selectIndex(List, n2)) = inp.v[2]

\* both interleaved invocations read length 1 and returned: the length is 2,
\* not 3, and of two distinct words only the second is stored
C12_Witness ==
    /\ ConcDone
    /\ inp.mode = "interleaved"
    /\ inp.v[1] # inp.v[2]
    /\ out[1].length = ToLE(1, 4)
    /\ out[2].length = ToLE(1, 4)
    /\ StorageSlot_length(store, List) = ToLE(2, 4)
    /\ StorageSlot_get(store, StorageSlot_selectIndex(List, ToLE(1, 4))) = inp.v[2]
    /\ \A k \in DOMAIN store : store[k] # inp.v[1]

(***************************************************************************)
(* SpecFrame: appends to two lists beside direct writes to the anchor      *)
(* slot and to the length slot of the first                                *)
(***************************************************************************)
\* the slots of List written directly: the anchor itself and its length
FrameSlots == { List, StorageSlot_lengthKey(List) }

NextFrame ==
    \/ \E s \in FrameSlots, w \in ListWords : ListSet(s, w)
    \/ \E S \in Anchors : ListLength(S)
    \/ \E v \in AppendWords : ListAppend(List, v)
    \/ \E v \in {u256_from(<<7>>)} : ListAppend(OtherList, v)

SpecFrame == InitList /\ [][NextFrame]_vars

\* C14: S.append(v) writes exactly two store locations, the length slot of S
\* and the element slot S.selectIndex(n) for the length n read at the start,
\* and leaves every other location unchanged: the word at S itself, every
\* element S.selectIndex(j) with j # n, and the lists of the other anchors.
\* The length slot is no element slot and element slots of distinct indices
\* differ.
C14_AppendWritesTwoSlots ==
    [][last'.op = "append" =>
          \A S \in {last'.slot} :
          \A n \in {StorageSlot_length(store, S)} :
          \A lk \in {StorageSlot_lengthKey(S)} :
          \A elem \in {[i \in GrowIndices \cup {n} |-> StorageSlot_selectIndex(S, i)]} :
          \A written \in {{<<lk.pointer, lk.subPointer>>,
                             <<elem[n].pointer, elem[n].subPointer>>}} :
              /\ \A i \in DOMAIN elem :
                     /\ lk # elem[i]
                     /\ \A j \in DOMAIN elem \ {i} : elem[i] # elem[j]
              /\ Cardinality(written) = 2
              /\ written \subseteq DOMAIN store'
              /\ StorageSlot_get(store', elem[n]) = last'.arg
              /\ \A k \in (DOMAIN store \cup DOMAIN store') \ written :
                     /\ k \in DOMAIN store
                     /\ k \in DOMAIN store'
                     /\ store'[k] = store[k]
              /\ StorageSlot_get(store', S) = StorageSlot_get(store, S)
              /\ \A j \in DOMAIN elem \ {n} :
                     StorageSlot_get(store', elem[j]) = StorageSlot_get(store, elem[j])
              /\ \A O \in Anchors \ {S} :
                     /\ StorageSlot_get(store', O) = StorageSlot_get(store, O)
                     /\ StorageSlot_length(store', O) = StorageSlot_length(store, O)
                     /\ StorageSlot_getList(store', O) = StorageSlot_getList(store, O)
    ]_vars

\* the third append to List has acted beside a one-element OtherList: the
\* word written at the anchor and the two earlier elements, distinct words,
\* are still in place
C14_Witness ==
    /\ last.op = "append"
    /\ last.slot = List
    /\ StorageSlot_get(store, List) = u256_from(<<255, 255, 255, 255>>)
    /\ StorageSlot_length(store, List) = ToLE(3, 4)
    /\ StorageSlot_get(store, StorageSlot_selectIndex(List, ToLE(2, 4))) = last.arg
    /\ StorageSlot_get(store, StorageSlot_selectIndex(List, ToLE(0, 4))) = u256_from(<<7>>)
    /\ StorageSlot_get(store, StorageSlot_selectIndex(List, ToLE(1, 4)))
          \notin {u256_Zero, u256_from(<<7>>)}
    /\ StorageSlot_getList(store, OtherList) = <<u256_from(<<7>>)>>

====
